---- MODULE Spec2Model ----
(***************************************************************************)
(* Rota scheduler: the constraint builder (scheduler/constraints.py), the  *)
(* solution validator and its transactional save                           *)
(* (scheduler/solution_parser.py), the snapshot loader                     *)
(* (scheduler/data_preparation.py) and the generation entry points         *)
(* (tasks/schedule_generation.py, management/commands/test_scheduler.py).  *)
(*                                                                         *)
(* Conventions.  Positions are 1-based here (0-based in the source).  A    *)
(* doctor is identified by a number, a shift by its <<date, kind>> pair    *)
(* (the unique (date, shift_type) key of Shift); a date is a day of the    *)
(* target month.  Audit timestamps (created_at, updated_at, generated_at)  *)
(* are not part of the modelled rows.                                      *)
(***************************************************************************)
EXTENDS Integers, Sequences, FiniteSets, Bags, TLC

VARIABLES
    snap,          \* validator check: the snapshot (SchedulerData) under test
    assigned,      \* validator check: the raw assignment set x, pairs <<d, s>> of positions
    report,        \* validator check: whether _detect_violations ran, and the list it built
    db,            \* the committed rows of the target (month, year): the Schedule row,
                   \* its ShiftAssignment rows and its ConstraintViolation rows
    configActive,  \* whether a ScheduleConfiguration row has is_active set
    last,          \* history: the last operation, its outcome and the solution it handled
    streak,        \* history: successive saves of one solution, and the rows after the first
    runs,          \* concurrent generate_schedule_task runs: position and local values
    request,       \* loader check: the arguments of SchedulerData(month, year)
    loaded,        \* loader check: whether the constructor ran, and how it ended
    tables,        \* snapshot loading: the rows of the tables SchedulerData reads
    built          \* snapshot loading: the snapshots constructed so far, in order

vvars == <<snap, assigned, report>>
pvars == <<db, configActive, last, streak>>
lvars == <<request, loaded>>
svars == <<tables, built>>
vars == <<snap, assigned, report, db, configActive, last, streak, runs, request, loaded,
          tables, built>>

-----------------------------------------------------------------------------
(* Bounds of the model *)

MaxShifts == 3       \* most shifts in a snapshot of the validator check

DoctorIds == {1, 2}
Dates == 1..3
Kinds == {"day", "night"}
NoDoctor == 0

-----------------------------------------------------------------------------
(* Snapshot helpers: scheduler/data_preparation.py *)

\* order_by('date', 'shift_type'): 'day' sorts before 'night'
KindRank(k) == IF k = "day" THEN 0 ELSE 1
ShiftKey(date, kind) == 2 * date + KindRank(kind)
ShiftId(shift) == <<shift.date, shift.kind>>

\* date.weekday() of a day of the modelled month, whose first day is a Friday
Weekday(date) == (date + 3) % 7

\* (an ordering by date that puts the night shift of a date first)
OrderByDateKind_NightFirst(ids) ==
    [i \in 1..Cardinality(ids) |->
        CHOOSE e \in ids :
            Cardinality({f \in ids : 2 * f[1] - KindRank(f[2]) < 2 * e[1] - KindRank(e[2])})
                = i - 1]

\* The list a queryset ordered by (date, shift_type) yields for a set of shift ids
OrderByDateKind(ids) ==
    [i \in 1..Cardinality(ids) |->
        CHOOSE e \in ids :
            Cardinality({f \in ids : ShiftKey(f[1], f[2]) < ShiftKey(e[1], e[2])}) = i - 1]

DoctorPositions(data) == 1..Len(data.doctors)
ShiftPositions(data) == 1..Len(data.shifts)

\* shift_index[shift.id]
ShiftIndex(data, id) == CHOOSE i \in ShiftPositions(data) : ShiftId(data.shifts[i]) = id
\* doctor_index[doctor.id]
DoctorIndex(data, id) == CHOOSE i \in DoctorPositions(data) : data.doctors[i] = id

IsDoctorOnLeave(data, doctorId, shift) == shift.date \in data.approved_leave[doctorId]

\* (a weekend that is the Sunday only)
ShiftMatchesRequirement_SundayOnly(shift, req) ==
    CASE req.applies_to = "all" -> TRUE
      [] req.applies_to = "day" -> shift.kind = "day"
      [] req.applies_to = "night" -> shift.kind = "night"
      [] req.applies_to = "weekday" -> Weekday(shift.date) < 5
      [] req.applies_to = "weekend" -> Weekday(shift.date) > 5
      [] OTHER -> FALSE

ShiftMatchesRequirement(shift, req) ==
    CASE req.applies_to = "all" -> TRUE
      [] req.applies_to = "day" -> shift.kind = "day"
      [] req.applies_to = "night" -> shift.kind = "night"
      [] req.applies_to = "weekday" -> Weekday(shift.date) < 5
      [] req.applies_to = "weekend" -> Weekday(shift.date) >= 5
      [] OTHER -> FALSE

GetRequirementsForShift(data, shift) ==
    {r \in data.shift_requirements : ShiftMatchesRequirement(shift, r)}

\* get_daily_shifts: date -> positions of the shifts of that date
DailyShifts(data, date) == {s \in ShiftPositions(data) : data.shifts[s].date = date}
\* sorted(daily_shifts.keys())
SortedDates(data) ==
    LET ds == {data.shifts[s].date : s \in ShiftPositions(data)}
    IN  [i \in 1..Cardinality(ds) |->
            CHOOSE d \in ds : Cardinality({e \in ds : e < d}) = i - 1]

-----------------------------------------------------------------------------
(* Constraint builder: scheduler/constraints.py.  Each operator is the      *)
(* conjunction of the constraints the method posts, as a predicate on x.   *)

\* shift.min_doctors or configuration.default_min_doctors_per_shift
MinRequired(data, shift) ==
    IF shift.min_doctors # 0 THEN shift.min_doctors
    ELSE data.configuration.default_min_doctors_per_shift

DoctorsOn(x, data, s) == {d \in DoctorPositions(data) : <<d, s>> \in x}
ShiftsOf(x, data, d) == {s \in ShiftPositions(data) : <<d, s>> \in x}

\* (a coverage constraint that always takes the configuration's default)
CoverageConstraints_DefaultOnly(x, data) ==
    \A s \in ShiftPositions(data) :
        Cardinality(DoctorsOn(x, data, s)) >= data.configuration.default_min_doctors_per_shift

CoverageConstraints(x, data) ==
    \A s \in ShiftPositions(data) :
        Cardinality(DoctorsOn(x, data, s)) >= MinRequired(data, data.shifts[s])

\* (leave that blocks the day shifts of the date only)
LeaveConstraints_DayShiftsOnly(x, data) ==
    \A d \in DoctorPositions(data), s \in ShiftPositions(data) :
        (IsDoctorOnLeave(data, data.doctors[d], data.shifts[s]) /\ data.shifts[s].kind = "day")
            => <<d, s>> \notin x

\* (leave that blocks the night shifts of the date only)
LeaveConstraints_NightShiftsOnly(x, data) ==
    \A d \in DoctorPositions(data), s \in ShiftPositions(data) :
        (IsDoctorOnLeave(data, data.doctors[d], data.shifts[s]) /\ data.shifts[s].kind = "night")
            => <<d, s>> \notin x

LeaveConstraints(x, data) ==
    \A d \in DoctorPositions(data), s \in ShiftPositions(data) :
        IsDoctorOnLeave(data, data.doctors[d], data.shifts[s]) => <<d, s>> \notin x

\* (a shift count with the upper bound off by one)
ShiftCountConstraints_LooseMax(x, data) ==
    \A d \in DoctorPositions(data) :
        /\ Cardinality(ShiftsOf(x, data, d)) >= data.configuration.min_shifts_per_doctor
        /\ Cardinality(ShiftsOf(x, data, d)) <= data.configuration.max_shifts_per_doctor + 1

ShiftCountConstraints(x, data) ==
    \A d \in DoctorPositions(data) :
        /\ Cardinality(ShiftsOf(x, data, d)) >= data.configuration.min_shifts_per_doctor
        /\ Cardinality(ShiftsOf(x, data, d)) <= data.configuration.max_shifts_per_doctor

\* (windows that stop one position short of the end of the month)
ConsecutiveShiftConstraints_LastWindowMissing(x, data) ==
    LET K == data.configuration.max_consecutive_shifts
    IN  \A d \in DoctorPositions(data) :
            \A start \in 1..(Len(data.shifts) - K - 1) :
                Cardinality(ShiftsOf(x, data, d) \cap (start..(start + K))) <= K

ConsecutiveShiftConstraints(x, data) ==
    LET K == data.configuration.max_consecutive_shifts
    IN  \A d \in DoctorPositions(data) :
            \A start \in 1..(Len(data.shifts) - K) :
                Cardinality(ShiftsOf(x, data, d) \cap (start..(start + K))) <= K

\* (a rest rule that looks at shifts of the same date only)
RestPeriodConstraints_SameDayOnly(x, data) ==
    IF data.configuration.min_rest_hours_between_shifts < 12 THEN TRUE
    ELSE \A d \in DoctorPositions(data) :
            \A s \in 1..(Len(data.shifts) - 1) :
                LET cur == data.shifts[s]
                    nxt == data.shifts[s + 1]
                IN  (cur.kind = "night" /\ nxt.kind = "day" /\ nxt.date - cur.date <= 0)
                        => ~(<<d, s>> \in x /\ <<d, s + 1>> \in x)

RestPeriodConstraints(x, data) ==
    IF data.configuration.min_rest_hours_between_shifts < 12 THEN TRUE
    ELSE \A d \in DoctorPositions(data) :
            \A s \in 1..(Len(data.shifts) - 1) :
                LET cur == data.shifts[s]
                    nxt == data.shifts[s + 1]
                IN  (cur.kind = "night" /\ nxt.kind = "day" /\ nxt.date - cur.date <= 1)
                        => ~(<<d, s>> \in x /\ <<d, s + 1>> \in x)

\* works_i: the max-equality over the day's decision variables
WorksOn(x, data, d, date) ==
    IF \E s \in DailyShifts(data, date) : <<d, s>> \in x THEN 1 ELSE 0

\* (a single-day-off rule that takes every three successive dates with shifts)
SingleDayOffConstraints_NoGapCheck(x, data) ==
    IF ~data.configuration.avoid_single_day_off THEN TRUE
    ELSE LET dates == SortedDates(data)
         IN  \A d \in DoctorPositions(data) :
                \A i \in 1..(Len(dates) - 2) :
                    WorksOn(x, data, d, dates[i]) + WorksOn(x, data, d, dates[i + 2])
                        <= 1 + WorksOn(x, data, d, dates[i + 1])

SingleDayOffConstraints(x, data) ==
    IF ~data.configuration.avoid_single_day_off THEN TRUE
    ELSE LET dates == SortedDates(data)
         IN  \A d \in DoctorPositions(data) :
                \A i \in 1..(Len(dates) - 2) :
                    (dates[i + 1] - dates[i] = 1 /\ dates[i + 2] - dates[i + 1] = 1)
                        => WorksOn(x, data, d, dates[i]) + WorksOn(x, data, d, dates[i + 2])
                              <= 1 + WorksOn(x, data, d, dates[i + 1])

\* (windows of max_consecutive_days_off + 2 dates)
MaxConsecutiveDaysOffConstraints_WideWindow(x, data) ==
    LET M == data.configuration.max_consecutive_days_off + 1
        dates == SortedDates(data)
    IN  \A d \in DoctorPositions(data) :
            \A i \in 1..(Len(dates) - M) :
                (\A j \in i..(i + M - 1) : dates[j + 1] - dates[j] = 1)
                    => \E j \in i..(i + M) : WorksOn(x, data, d, dates[j]) = 1

MaxConsecutiveDaysOffConstraints(x, data) ==
    LET M == data.configuration.max_consecutive_days_off
        dates == SortedDates(data)
    IN  \A d \in DoctorPositions(data) :
            \A i \in 1..(Len(dates) - M) :
                (\A j \in i..(i + M - 1) : dates[j + 1] - dates[j] = 1)
                    => \E j \in i..(i + M) : WorksOn(x, data, d, dates[j]) = 1

SkillMixConstraints(x, data) ==
    \A s \in ShiftPositions(data) :
        \A req \in GetRequirementsForShift(data, data.shifts[s]) :
            (req.required_specialty # "none" /\ req.min_with_specialty > 0)
                => LET specialty_indices ==
                           {DoctorIndex(data, id) : id \in data.doctors_by_specialty[req.required_specialty]}
                   IN  specialty_indices # {}
                           => Cardinality(DoctorsOn(x, data, s) \cap specialty_indices)
                                  >= req.min_with_specialty

BuildAllHardConstraints(x, data) ==
    /\ CoverageConstraints(x, data)
    /\ LeaveConstraints(x, data)
    /\ ShiftCountConstraints(x, data)
    /\ ConsecutiveShiftConstraints(x, data)
    /\ RestPeriodConstraints(x, data)
    /\ SingleDayOffConstraints(x, data)
    /\ MaxConsecutiveDaysOffConstraints(x, data)
    /\ SkillMixConstraints(x, data)

-----------------------------------------------------------------------------
(* Solution validator: scheduler/solution_parser.py.  asg is the set of    *)
(* persisted ShiftAssignment rows of the schedule, pairs                   *)
(* <<doctor id, shift id>>; the result is the list self.violations.        *)

Violation(type, severity, doctor, description) ==
    [violation_type |-> type, severity |-> severity, doctor |-> doctor,
     description |-> description]

\* The members of a list that pass a test, mapped: [f(v) for v in seq if test(v)]
Range(seq) == {seq[i] : i \in DOMAIN seq}

\* _create_assignments: positions of the solution resolved against the snapshot
CreateAssignments(x, data) ==
    {<<data.doctors[p[1]], ShiftId(data.shifts[p[2]])>> : p \in x}

CheckCoverageViolations(asg, data) ==
    LET row(s) ==
            LET shift == data.shifts[s]
                actual_count == Cardinality({a \in asg : a[2] = ShiftId(shift)})
            IN  [bad |-> actual_count < MinRequired(data, shift),
                 v |-> Violation("under_coverage", "error", NoDoctor,
                                 <<ShiftId(shift), actual_count, MinRequired(data, shift)>>)]
        rows == [s \in ShiftPositions(data) |-> row(s)]
        IsBad(r) == r.bad
        bad == SelectSeq(rows, IsBad)
    IN  [i \in 1..Len(bad) |-> bad[i].v]

\* The violations _check_workload_violations appends for one doctor
WorkloadOfDoctor(asg, data, doctor) ==
    LET shift_count == Cardinality({a \in asg : a[1] = doctor})
        config == data.configuration
    IN  (IF shift_count < config.min_shifts_per_doctor
         THEN <<Violation("under_min_shifts", "warning", doctor,
                          <<shift_count, config.min_shifts_per_doctor>>)>>
         ELSE <<>>)
        \o
        (IF shift_count > config.max_shifts_per_doctor
         THEN <<Violation("over_max_shifts", "error", doctor,
                          <<shift_count, config.max_shifts_per_doctor>>)>>
         ELSE <<>>)

\* The doctor's assigned shifts, order_by('shift__date', 'shift__shift_type')
DoctorAssignments(asg, doctor) == OrderByDateKind({a[2] : a \in {b \in asg : b[1] = doctor}})

\* The loop of _check_consecutive_shift_violations from index i with the running
\* count: the count reported at the break, or 0 when the loop ends without one
\* (a walk that reports a run of max_consecutive shifts already)
RECURSIVE ConsecutiveWalk_OffByOne(_, _, _, _)
ConsecutiveWalk_OffByOne(shift_indices, i, consecutive_count, max_consecutive) ==
    IF i > Len(shift_indices) THEN 0
    ELSE IF shift_indices[i] = shift_indices[i - 1] + 1
         THEN IF consecutive_count + 1 >= max_consecutive
              THEN consecutive_count + 1
              ELSE ConsecutiveWalk_OffByOne(shift_indices, i + 1, consecutive_count + 1,
                                            max_consecutive)
         ELSE ConsecutiveWalk_OffByOne(shift_indices, i + 1, 1, max_consecutive)

\* (a walk that keeps its count over a break in the positions)
RECURSIVE ConsecutiveWalk_NoReset(_, _, _, _)
ConsecutiveWalk_NoReset(shift_indices, i, consecutive_count, max_consecutive) ==
    IF i > Len(shift_indices) THEN 0
    ELSE IF shift_indices[i] = shift_indices[i - 1] + 1
         THEN IF consecutive_count + 1 > max_consecutive
              THEN consecutive_count + 1
              ELSE ConsecutiveWalk_NoReset(shift_indices, i + 1, consecutive_count + 1,
                                           max_consecutive)
         ELSE ConsecutiveWalk_NoReset(shift_indices, i + 1, consecutive_count, max_consecutive)

RECURSIVE ConsecutiveWalk(_, _, _, _)
ConsecutiveWalk(shift_indices, i, consecutive_count, max_consecutive) ==
    IF i > Len(shift_indices) THEN 0
    ELSE IF shift_indices[i] = shift_indices[i - 1] + 1
         THEN IF consecutive_count + 1 > max_consecutive
              THEN consecutive_count + 1
              ELSE ConsecutiveWalk(shift_indices, i + 1, consecutive_count + 1, max_consecutive)
         ELSE ConsecutiveWalk(shift_indices, i + 1, 1, max_consecutive)

ConsecutiveOfDoctor(asg, data, doctor) ==
    LET ordered == DoctorAssignments(asg, doctor)
        shift_indices == [i \in 1..Len(ordered) |-> ShiftIndex(data, ordered[i])]
        max_consecutive == data.configuration.max_consecutive_shifts
        hit == IF Len(shift_indices) < 2 THEN 0
               ELSE ConsecutiveWalk(shift_indices, 2, 1, max_consecutive)
    IN  IF hit = 0 THEN <<>>
        ELSE <<Violation("too_many_consecutive_shifts", "error", doctor,
                         <<hit, max_consecutive>>)>>

\* (a rest check that flags every night followed by a day, however far apart)
RestOfDoctor_NoDateCheck(asg, data, doctor) ==
    LET ordered == DoctorAssignments(asg, doctor)
        pair(i) ==
            LET current_shift == ordered[i]
                next_shift == ordered[i + 1]
            IN  [bad |-> /\ current_shift[2] = "night"
                         /\ next_shift[2] = "day",
                 v |-> Violation("insufficient_rest", "error", doctor,
                                 <<current_shift[1], next_shift[1],
                                   data.configuration.min_rest_hours_between_shifts>>)]
        pairs == [i \in 1..(Len(ordered) - 1) |-> pair(i)]
        IsBad(r) == r.bad
        bad == SelectSeq(pairs, IsBad)
    IN  [i \in 1..Len(bad) |-> bad[i].v]

RestOfDoctor(asg, data, doctor) ==
    LET ordered == DoctorAssignments(asg, doctor)
        pair(i) ==
            LET current_shift == ordered[i]
                next_shift == ordered[i + 1]
            IN  [bad |-> /\ current_shift[2] = "night"
                         /\ next_shift[2] = "day"
                         /\ next_shift[1] - current_shift[1] <= 1,
                 v |-> Violation("insufficient_rest", "error", doctor,
                                 <<current_shift[1], next_shift[1],
                                   data.configuration.min_rest_hours_between_shifts>>)]
        pairs == [i \in 1..(Len(ordered) - 1) |-> pair(i)]
        IsBad(r) == r.bad
        bad == SelectSeq(pairs, IsBad)
    IN  [i \in 1..Len(bad) |-> bad[i].v]

\* for doctor in self.data.doctors: the per-doctor lists, concatenated in order
RECURSIVE ForEachDoctor(_, _, _, _)
ForEachDoctor(PerDoctor(_, _, _), asg, data, k) ==
    IF k > Len(data.doctors) THEN <<>>
    ELSE PerDoctor(asg, data, data.doctors[k]) \o ForEachDoctor(PerDoctor, asg, data, k + 1)

CheckWorkloadViolations(asg, data) == ForEachDoctor(WorkloadOfDoctor, asg, data, 1)

CheckConsecutiveShiftViolations(asg, data) == ForEachDoctor(ConsecutiveOfDoctor, asg, data, 1)

CheckRestPeriodViolations(asg, data) ==
    IF data.configuration.min_rest_hours_between_shifts < 12 THEN <<>>
    ELSE ForEachDoctor(RestOfDoctor, asg, data, 1)

DetectViolations(asg, data) ==
    CheckCoverageViolations(asg, data)
        \o CheckWorkloadViolations(asg, data)
        \o CheckConsecutiveShiftViolations(asg, data)
        \o CheckRestPeriodViolations(asg, data)

-----------------------------------------------------------------------------
(* Inputs of the validator check: snapshots as SchedulerData.__init__      *)
(* builds them, over the doctors, dates and parameter values below.        *)

StatusNames == {"OPTIMAL", "FEASIBLE", "INFEASIBLE", "UNKNOWN", "MODEL_INVALID"}

Configurations ==
    {[min_shifts_per_doctor |-> w[1], max_shifts_per_doctor |-> w[2],
      default_min_doctors_per_shift |-> w[3],
      max_consecutive_shifts |-> K,
      min_rest_hours_between_shifts |-> rest,
      max_consecutive_days_off |-> o[1], avoid_single_day_off |-> o[2]] :
        w \in {<<1, 2, 1>>, <<0, 3, 2>>, <<0, 1, 1>>}, K \in {1, 2}, rest \in {0, 12},
        o \in {<<1, TRUE>>, <<2, FALSE>>}}

NoLeave == [d \in DoctorIds |-> {}]
Requirement(applies_to, specialty, n) ==
    [applies_to |-> applies_to, required_specialty |-> specialty, min_with_specialty |-> n]

\* (approved_leave, shift_requirements, doctors_by_specialty) of a snapshot
Staffing ==
    {[leave |-> NoLeave, reqs |-> {}, by_specialty |-> [sp \in {"X"} |-> {}]],
     [leave |-> [NoLeave EXCEPT ![1] = {2}], reqs |-> {}, by_specialty |-> [sp \in {"X"} |-> {}]],
     [leave |-> NoLeave, reqs |-> {Requirement("weekend", "X", 1)},
      by_specialty |-> [sp \in {"X"} |-> {1}]],
     [leave |-> NoLeave, reqs |-> {Requirement("all", "X", 1)},
      by_specialty |-> [sp \in {"X"} |-> {}]]}

\* Shift.objects.filter(...).order_by('date', 'shift_type') over a set of shift rows
\* with unique (date, shift_type)
LoadShifts(ids, min_doctors) ==
    LET ordered == OrderByDateKind(ids)
    IN  [i \in 1..Len(ordered) |->
            [date |-> ordered[i][1], kind |-> ordered[i][2], min_doctors |-> min_doctors]]

ShiftSets == {ids \in SUBSET (Dates \X Kinds) : Cardinality(ids) <= MaxShifts}

Snapshot(ids, min_doctors, config, staffing) ==
    [doctors |-> <<1, 2>>,
     shifts |-> LoadShifts(ids, min_doctors),
     configuration |-> config,
     approved_leave |-> staffing.leave,
     shift_requirements |-> staffing.reqs,
     doctors_by_specialty |-> staffing.by_specialty]

-----------------------------------------------------------------------------
(* Persistence: schedules/models.py and SolutionParser.save_to_database.   *)
(* A nullable column holds <<>> (NULL) or <<value>>.                       *)

\* The target (month, year) before any schedule row exists; the field values are
\* the column defaults a created row gets
NoSchedule ==
    [exists |-> FALSE, status |-> "draft", solver_status |-> "",
     solver_time_seconds |-> <<>>, objective_value |-> <<>>, notes |-> "",
     assignments |-> {}, violations |-> EmptyBag]

ScheduleStatuses == {"draft", "published", "finalized"}

\* ScheduleSolution.is_feasible
IsFeasible(solution) == solution.status \in {"OPTIMAL", "FEASIBLE"}

SeqToBag(seq) ==
    [v \in Range(seq) |-> Cardinality({i \in DOMAIN seq : seq[i] = v})]

\* solution.assignments in the order _extract_assignments lists it: by doctor
\* position, then by shift position
AssignmentList(x) ==
    [i \in 1..Cardinality(x) |->
        CHOOSE p \in x :
            Cardinality({q \in x : q[1] < p[1] \/ (q[1] = p[1] /\ q[2] < p[2])}) = i - 1]

\* Schedule.objects.get_or_create(month, year, defaults={'status': 'draft', ...})
CreateOrUpdateSchedule(s) == IF s.exists THEN s ELSE [NoSchedule EXCEPT !.exists = TRUE]

\* _save_violations: delete the schedule's violations, bulk_create the new ones
SaveViolations(s, violations) == [s EXCEPT !.violations = SeqToBag(violations)]

\* (an infeasible save that also clears the roster)
SaveInfeasible_ClearsRoster(s, solution) ==
    [s EXCEPT !.solver_status = solution.status,
              !.solver_time_seconds = <<solution.solver_time>>,
              !.notes = "Schedule generation failed - no feasible solution found",
              !.assignments = {}]

\* if not self.solution.is_feasible: the three fields set before schedule.save()
SaveInfeasible(s, solution) ==
    [s EXCEPT !.solver_status = solution.status,
              !.solver_time_seconds = <<solution.solver_time>>,
              !.notes = "Schedule generation failed - no feasible solution found"]

\* (the validation run before the roster is rewritten)
SaveWrites_ValidateFirst(solution) ==
    IF ~IsFeasible(solution)
    THEN <<[op |-> "get_or_create"], [op |-> "save_infeasible"]>>
    ELSE <<[op |-> "get_or_create"], [op |-> "detect_and_save_violations"],
           [op |-> "delete_assignments"]>>
         \o [i \in 1..Cardinality(solution.assignments) |->
                [op |-> "create_assignment", pair |-> AssignmentList(solution.assignments)[i]]]
         \o <<[op |-> "save_metadata"]>>

\* The database writes of one save_to_database call, in program order
SaveWrites(solution) ==
    IF ~IsFeasible(solution)
    THEN <<[op |-> "get_or_create"], [op |-> "save_infeasible"]>>
    ELSE <<[op |-> "get_or_create"], [op |-> "delete_assignments"]>>
         \o [i \in 1..Cardinality(solution.assignments) |->
                [op |-> "create_assignment", pair |-> AssignmentList(solution.assignments)[i]]]
         \o <<[op |-> "detect_and_save_violations"], [op |-> "save_metadata"]>>

\* The rows after one write of save_to_database
ApplyWrite(s, w, solution, data) ==
    CASE w.op = "get_or_create" -> CreateOrUpdateSchedule(s)
      [] w.op = "save_infeasible" -> SaveInfeasible(s, solution)
      [] w.op = "delete_assignments" -> [s EXCEPT !.assignments = {}]
      [] w.op = "create_assignment" ->
            [s EXCEPT !.assignments = @ \cup CreateAssignments({w.pair}, data)]
      [] w.op = "detect_and_save_violations" ->
            LET violations == DetectViolations(s.assignments, data)
            IN  IF violations # <<>> THEN SaveViolations(s, violations) ELSE s
      [] w.op = "save_metadata" ->
            [s EXCEPT !.solver_status = solution.status,
                      !.solver_time_seconds = <<solution.solver_time>>,
                      !.objective_value = solution.objective_value]

\* The rows inside the transaction after the first k writes
RECURSIVE AfterWrites(_, _, _, _, _)
AfterWrites(s, writes, k, solution, data) ==
    IF k = 0 THEN s
    ELSE ApplyWrite(AfterWrites(s, writes, k - 1, solution, data), writes[k], solution, data)

\* (a save whose writes are committed one by one)
TransactionAtomic_Autocommit(before, inside, completed) == inside

\* @transaction.atomic: what is committed when the call ends, having completed
\* or having raised
TransactionAtomic(before, inside, completed) == IF completed THEN inside ELSE before

\* save_to_database(solution, data) that raises in write number failAt (0: none does)
SaveToDatabase(s, solution, data, failAt) ==
    LET writes == SaveWrites(solution)
        done == IF failAt = 0 THEN Len(writes) ELSE failAt - 1
    IN  TransactionAtomic(s, AfterWrites(s, writes, done, solution, data), failAt = 0)

-----------------------------------------------------------------------------
(* The loader's argument check: SchedulerData.__init__ and the date(...)   *)
(* calls of _load_approved_leave.                                          *)

\* datetime.date(year, month, 1) is defined (it raises ValueError otherwise)
DateExists(year, month) == year \in 1..9999 /\ month \in 1..12

\* How SchedulerData(month, year) ends: "ok", or the text of the ValueError it raises
SchedulerDataInit(month, year, active) ==
    IF ~active THEN "No active schedule configuration found"
    ELSE IF year \notin 1..9999 THEN "year is out of range"
    ELSE IF ~DateExists(year, month) THEN "month must be in 1..12"
    ELSE IF month = 12 /\ ~DateExists(year + 1, 1) THEN "year is out of range"
    ELSE "ok"

-----------------------------------------------------------------------------
(* The world of the persistence runs: one target month, whose doctors,     *)
(* shifts and configuration do not change.                                 *)

Target == [month |-> 6, year |-> 2024]

World ==
    Snapshot({<<1, "night">>, <<2, "day">>}, 0,
             [min_shifts_per_doctor |-> 1, max_shifts_per_doctor |-> 2,
              default_min_doctors_per_shift |-> 1, max_consecutive_shifts |-> 2,
              min_rest_hours_between_shifts |-> 12, max_consecutive_days_off |-> 1,
              avoid_single_day_off |-> TRUE],
             [leave |-> NoLeave, reqs |-> {}, by_specialty |-> [sp \in {"X"} |-> {}]])

MaxSolverTime == 1   \* solve times are 1..MaxSolverTime seconds

AllPairs(data) == DoctorPositions(data) \X ShiftPositions(data)

Solution(status, x, time) ==
    [status |-> status, assignments |-> x, solver_time |-> time,
     objective_value |-> IF status \in {"OPTIMAL", "FEASIBLE"} THEN <<Cardinality(x)>> ELSE <<>>]

NoSolution == Solution("NONE", {}, 0)

\* The rosters the runs handle: every shift staffed by one doctor (two of them
\* break no rule, two give both shifts to one doctor)
Rosters(data) ==
    {x \in SUBSET AllPairs(data) :
        \A s \in ShiftPositions(data) : Cardinality(DoctorsOn(x, data, s)) = 1}

\* The ScheduleSolution values a caller hands to save_solution
Solutions(data) ==
    {Solution(st, x, tm) : st \in StatusNames, x \in Rosters(data), tm \in 1..MaxSolverTime}

\* ScheduleSolver.solve: what the CP-SAT engine can return for the model the
\* builder posted: a satisfying assignment (OPTIMAL: one of maximal size),
\* INFEASIBLE when there is none, UNKNOWN when the time limit ends the search
SolverResults(data) ==
    LET sat == {x \in SUBSET AllPairs(data) : BuildAllHardConstraints(x, data)}
        sizes == {Cardinality(x) : x \in sat}
        best == {x \in sat : \A n \in sizes : n <= Cardinality(x)}
    IN  {Solution("FEASIBLE", x, tm) : x \in sat, tm \in 1..MaxSolverTime}
        \cup {Solution("OPTIMAL", x, tm) : x \in best, tm \in 1..MaxSolverTime}
        \cup {Solution("UNKNOWN", {}, tm) : tm \in 1..MaxSolverTime}
        \cup (IF sat = {} THEN {Solution("INFEASIBLE", {}, tm) : tm \in 1..MaxSolverTime}
              ELSE {})

WorldSolutions == Solutions(World)
WorldSolverResults == SolverResults(World)

\* The Schedule row Schedule.objects.filter/get(month=month, year=year) finds
ScheduleExists(s, month) == s.exists /\ month = Target.month

\* (a handler that only reports the error)
ExceptionHandler_ReportOnly(s, month, message) == s

\* except Exception as e: record the failure on the schedule row, if there is one
ExceptionHandler(s, month, message) ==
    IF ScheduleExists(s, month)
    THEN [s EXCEPT !.solver_status = "ERROR", !.notes = "Generation failed: " \o message]
    ELSE s

Faults == {"none", "load", "solve", "save"}

\* generate_schedule_task(month, year): the rows it leaves and how it ended
GenerateScheduleTaskResult(s, month, active, fault, solution, failAt) ==
    LET loading == SchedulerDataInit(month, Target.year, active)
    IN  IF loading # "ok"
        THEN [rows |-> ExceptionHandler(s, month, loading), outcome |-> "input_error"]
        ELSE IF fault = "load"
        THEN [rows |-> ExceptionHandler(s, month, "internal error"), outcome |-> "internal_error"]
        ELSE IF ScheduleExists(s, month) /\ s.status = "finalized"
        THEN [rows |-> s, outcome |-> "finalized"]
        ELSE IF fault = "solve"
        THEN [rows |-> ExceptionHandler(s, month, "internal error"), outcome |-> "internal_error"]
        ELSE IF fault = "save"
        THEN [rows |-> ExceptionHandler(SaveToDatabase(s, solution, World, failAt), month,
                                        "internal error"),
              outcome |-> "internal_error"]
        ELSE [rows |-> SaveToDatabase(s, solution, World, 0), outcome |-> "saved"]

\* Command.handle of test_scheduler: exceptions are re-raised, nothing is recorded
TestSchedulerResult(s, month, active, fault, solution, failAt) ==
    LET loading == SchedulerDataInit(month, Target.year, active)
    IN  IF loading # "ok" THEN [rows |-> s, outcome |-> "input_error"]
        ELSE IF fault \in {"load", "solve"} THEN [rows |-> s, outcome |-> "internal_error"]
        ELSE IF fault = "save"
        THEN [rows |-> SaveToDatabase(s, solution, World, failAt), outcome |-> "save_failed"]
        ELSE [rows |-> SaveToDatabase(s, solution, World, 0), outcome |-> "saved"]

-----------------------------------------------------------------------------
(* Persistence runs: the entry points act on the target month one at a     *)
(* time; an administrator changes the schedule status and the active       *)
(* configuration between them.                                             *)

\* What the idempotence claim compares: the assignment pairs, the violations as
\* (kind, severity, doctor), the solver status and the objective value
Persisted(s) ==
    [assignments |-> s.assignments,
     violations |-> {<<v.violation_type, v.severity, v.doctor>> : v \in BagToSet(s.violations)},
     solver_status |-> s.solver_status,
     objective_value |-> s.objective_value]

NoStreak == [n |-> 0, first |-> Persisted(NoSchedule)]

\* The history of successive completed saves of one solution
NextStreak(outcome, solution, rows) ==
    IF outcome # "saved" THEN NoStreak
    ELSE IF streak.n >= 1 /\ last.outcome = "saved" /\ last.solution = solution
         THEN [streak EXCEPT !.n = 2]
         ELSE [n |-> 1, first |-> Persisted(rows)]

Record(op, outcome, month, solution, failAt, rows) ==
    /\ db' = rows
    /\ last' = [op |-> op, outcome |-> outcome, month |-> month,
                solution |-> IF outcome = "saved" THEN solution ELSE NoSolution,
                writes |-> IF outcome = "save_failed" THEN failAt - 1 ELSE 0]
    /\ streak' = NextStreak(outcome, solution, rows)

IdleV ==
    /\ snap = World
    /\ assigned = {}
    /\ report = [done |-> FALSE, violations |-> <<>>]

IdleL ==
    /\ request = [month |-> Target.month, year |-> Target.year, active |-> TRUE]
    /\ loaded = [done |-> FALSE, result |-> "ok", solved |-> FALSE]

IdleP ==
    /\ db = NoSchedule
    /\ configActive = TRUE
    /\ last = [op |-> "init", outcome |-> "none", month |-> Target.month,
               solution |-> NoSolution, writes |-> 0]
    /\ streak = NoStreak

IdleS ==
    /\ tables = [doctors |-> {}, shifts |-> {}, leave |-> {}]
    /\ built = <<>>

IdleC == runs = [r \in 1..2 |-> [pc |-> "idle", solution |-> NoSolution]]

Init == IdleP /\ IdleV /\ IdleL /\ IdleC /\ IdleS

Months == {Target.month, 13}

\* The runs of an entry point: where an exception is raised, if anywhere, and the
\* solution the solver returns when it is reached
RunCases ==
    {[month |-> m, fault |-> "none", solution |-> sol, failAt |-> 0] :
        m \in Months, sol \in WorldSolverResults}
    \cup {[month |-> Target.month, fault |-> f, solution |-> NoSolution, failAt |-> 0] :
        f \in {"load", "solve"}}
    \cup UNION {{[month |-> Target.month, fault |-> "save", solution |-> sol, failAt |-> k] :
                    k \in 1..Len(SaveWrites(sol))} : sol \in WorldSolverResults}

SaveCases ==
    UNION {{[solution |-> sol, failAt |-> k] : k \in 0..Len(SaveWrites(sol))} :
              sol \in WorldSolutions}

\* save_solution(solution, data) called with a snapshot of the target month
SaveSolution ==
    \E c \in SaveCases :
        /\ Record("save_solution", IF c.failAt = 0 THEN "saved" ELSE "save_failed",
                  Target.month, c.solution, c.failAt,
                  SaveToDatabase(db, c.solution, World, c.failAt))
        /\ UNCHANGED <<configActive, snap, assigned, report, runs, request, loaded, tables, built>>

GenerateScheduleTask ==
    \E c \in RunCases :
        LET result == GenerateScheduleTaskResult(db, c.month, configActive, c.fault,
                                                 c.solution, c.failAt)
        IN  /\ Record("generate_schedule_task", result.outcome, c.month, c.solution, c.failAt,
                   result.rows)
            /\ UNCHANGED <<configActive, snap, assigned, report, runs, request, loaded, tables, built>>

TestSchedulerCommand ==
    \E c \in RunCases :
        LET result == TestSchedulerResult(db, c.month, configActive, c.fault,
                                          c.solution, c.failAt)
        IN  /\ Record("test_scheduler", result.outcome, c.month, c.solution, c.failAt,
                   result.rows)
            /\ UNCHANGED <<configActive, snap, assigned, report, runs, request, loaded, tables, built>>

\* ScheduleAdmin: the status of an existing schedule is edited
AdminSetStatus ==
    \E status \in ScheduleStatuses :
        /\ db.exists
        /\ Record("admin_status", "none", Target.month, NoSolution, 0,
                  [db EXCEPT !.status = status])
        /\ UNCHANGED <<configActive, snap, assigned, report, runs, request, loaded, tables, built>>

\* ScheduleConfigurationAdmin: the active configuration is switched on or off
AdminSetConfigActive ==
    /\ configActive' = ~configActive
    /\ Record("admin_config", "none", Target.month, NoSolution, 0, db)
    /\ UNCHANGED <<snap, assigned, report, runs, request, loaded, tables, built>>

Next ==
    \/ SaveSolution
    \/ GenerateScheduleTask
    \/ TestSchedulerCommand
    \/ AdminSetStatus
    \/ AdminSetConfigActive

Spec == Init /\ [][Next]_vars

-----------------------------------------------------------------------------
(* Claims on the persisted rows *)

EntryPoints == {"generate_schedule_task", "save_solution", "test_scheduler"}

\* C3: after any save_to_database call with a feasible solution, whatever the
\* prior rows, the persisted assignments are exactly the pairs of this
\* solution and the persisted violations are exactly those detected in this
\* run; no violation of an earlier run survives, also when this run detects none.
C3_SaveReplacesRosterAndViolations ==
    (last.outcome = "saved" /\ IsFeasible(last.solution))
        => /\ db.assignments = CreateAssignments(last.solution.assignments, World)
           /\ db.violations = SeqToBag(DetectViolations(db.assignments, World))

\* C4: running save_to_database twice in a row with the same solution and
\* snapshot leaves the assignment pairs, the violations (kind, severity,
\* doctor), the solver status and the objective value as one run leaves them.
C4_IdempotentSave == streak.n = 2 => Persisted(db) = streak.first

\* A feasible solution with violations was saved twice in a row over an earlier roster
C4_Witness ==
    /\ streak.n = 2
    /\ IsFeasible(last.solution)
    /\ db.violations # EmptyBag

\* C5: once a schedule is finalized, no generation run through any entry
\* point changes its assignments, violations, solver status, solver time,
\* objective value or notes.
C5_FinalizedNeverOverwritten ==
    [][(db.exists /\ db.status = "finalized" /\ last'.op \in EntryPoints)
          => /\ db'.assignments = db.assignments
             /\ db'.violations = db.violations
             /\ db'.solver_status = db.solver_status
             /\ db'.solver_time_seconds = db.solver_time_seconds
             /\ db'.objective_value = db.objective_value
             /\ db'.notes = db.notes]_vars

\* C6: a save of a solution whose status is not OPTIMAL or FEASIBLE creates or
\* keeps the schedule row, inserts no assignment and no violation, and changes
\* only solver_status, solver_time_seconds and notes.
C6_InfeasibleSaveFrame ==
    [][(last'.outcome = "saved" /\ ~IsFeasible(last'.solution))
          => /\ db'.exists
             /\ db'.status = (IF db.exists THEN db.status ELSE "draft")
             /\ db'.assignments = db.assignments
             /\ db'.violations = db.violations
             /\ db'.objective_value = db.objective_value
             /\ db'.solver_status = last'.solution.status
             /\ db'.solver_time_seconds = <<last'.solution.solver_time>>
             /\ db'.notes = "Schedule generation failed - no feasible solution found"]_vars

\* An infeasible solution that carries a roster was saved over another roster
\* and its violations, which are still there
C6_Witness ==
    /\ last.outcome = "saved"
    /\ ~IsFeasible(last.solution)
    /\ db.assignments # {}
    /\ db.assignments # CreateAssignments(last.solution.assignments, World)
    /\ db.violations # EmptyBag
    /\ db.solver_status = "MODEL_INVALID"

FailureMessages ==
    {"No active schedule configuration found", "year is out of range",
     "month must be in 1..12", "internal error"}

FailedRun(l) ==
    l.op = "generate_schedule_task" /\ l.outcome \in {"input_error", "internal_error"}

C9_FailedSaveRollsBack == [][last'.outcome = "save_failed" => db' = db]_vars

\* A save failed after it had deleted the old roster and inserted a new pair
C9_Witness ==
    /\ last.outcome = "save_failed"
    /\ last.writes >= 3
    /\ db.assignments # {}
    /\ db.violations # EmptyBag

\* C29: over any sequence of save_to_database calls, whenever the persisted
\* solver_status is a solver status other than OPTIMAL and FEASIBLE the
\* schedule has no persisted assignments, and whenever it is OPTIMAL or
\* FEASIBLE the persisted assignments, objective_value and notes are those of
\* the run that wrote that status (a feasible run writes no note).
C29_StatusMatchesPersistedRun ==
    /\ (db.exists /\ db.solver_status \in StatusNames \ {"OPTIMAL", "FEASIBLE"})
          => db.assignments = {}
    /\ (last.outcome = "saved" /\ IsFeasible(last.solution))
          => /\ db.solver_status = last.solution.status
             /\ db.assignments = CreateAssignments(last.solution.assignments, World)
             /\ db.objective_value = last.solution.objective_value
             /\ db.notes = ""

-----------------------------------------------------------------------------
(* Snapshot construction: SchedulerData(month, year) is called with a      *)
(* period and a database in which a configuration is active or none is,    *)
(* and generate_schedule goes on to the solver when it returns.            *)

MinYear == 2024
LoaderMonths == 0..13
LoaderYears == {0, 1, MinYear - 1, MinYear, MinYear + 1, 9999, 10000}

InitL ==
    /\ request \in [month : LoaderMonths, year : LoaderYears, active : BOOLEAN]
    /\ loaded = [done |-> FALSE, result |-> "ok", solved |-> FALSE]
    /\ IdleP /\ IdleV /\ IdleC /\ IdleS

\* data = SchedulerData(month, year)
Construct ==
    /\ ~loaded.done
    /\ loaded' = [done |-> TRUE,
                  result |-> SchedulerDataInit(request.month, request.year, request.active),
                  solved |-> FALSE]
    /\ UNCHANGED <<request, snap, assigned, report, db, configActive, last, streak, runs, tables, built>>

\* solver = ScheduleSolver(data, timeout_seconds); solution = solver.solve()
SolveLoaded ==
    /\ loaded.done /\ loaded.result = "ok" /\ ~loaded.solved
    /\ loaded' = [loaded EXCEPT !.solved = TRUE]
    /\ UNCHANGED <<request, snap, assigned, report, db, configActive, last, streak, runs, tables, built>>

NextL == Construct \/ SolveLoaded

SpecL == InitL /\ [][NextL]_vars

\* C10: SchedulerData(month, year) fails with an error, before any solver
\* work, whenever no configuration is active, whenever month is outside 1..12
\* and whenever year < 2024; it succeeds otherwise.
C10_ConstructionFailsIffInvalidPeriod ==
    /\ loaded.done =>
          ((loaded.result # "ok") <=>
              (~request.active \/ request.month \notin 1..12 \/ request.year < MinYear))
    /\ loaded.solved => loaded.result = "ok"

-----------------------------------------------------------------------------
(* Concurrent generation: two generate_schedule_task runs for the target   *)
(* month are started by the workers; each loads its snapshot, looks at the *)
(* schedule's status, solves and saves, the save being one transaction.    *)

RunIds == {1, 2}

InitC ==
    /\ IdleC /\ IdleS
    /\ IdleP /\ IdleV /\ IdleL

SetRun(r, pc, solution) ==
    /\ runs' = [runs EXCEPT ![r] = [pc |-> pc, solution |-> solution]]
    /\ UNCHANGED <<snap, assigned, report, configActive, last, streak, request, loaded, tables, built>>

\* data = SchedulerData(month, year)
LoadData(r) ==
    /\ runs[r].pc = "idle"
    /\ SchedulerDataInit(Target.month, Target.year, configActive) = "ok"
    /\ SetRun(r, "loaded", NoSolution)
    /\ UNCHANGED <<db, tables, built>>

\* if schedule and schedule.status == Schedule.STATUS_FINALIZED: return
CheckFinalized(r) ==
    /\ runs[r].pc = "loaded"
    /\ SetRun(r, IF ScheduleExists(db, Target.month) /\ db.status = "finalized"
                 THEN "aborted" ELSE "checked", NoSolution)
    /\ UNCHANGED <<db, tables, built>>

\* solution = solver.solve()
Solve(r) ==
    /\ runs[r].pc = "checked"
    /\ \E solution \in WorldSolverResults : SetRun(r, "solved", solution)
    /\ UNCHANGED <<db, tables, built>>

\* schedule = save_solution(solution, data)
Save(r) ==
    /\ runs[r].pc = "solved"
    /\ db' = SaveToDatabase(db, runs[r].solution, World, 0)
    /\ SetRun(r, "done", runs[r].solution)

\* ScheduleAdmin: a draft schedule is finalized
AdminFinalize ==
    /\ db.exists /\ db.status = "draft"
    /\ db' = [db EXCEPT !.status = "finalized"]
    /\ UNCHANGED <<runs, snap, assigned, report, configActive, last, streak, request, loaded, tables, built>>

NextC ==
    \/ \E r \in RunIds : LoadData(r)
    \/ \E r \in RunIds : CheckFinalized(r)
    \/ \E r \in RunIds : Solve(r)
    \/ \E r \in RunIds : Save(r)
    \/ AdminFinalize

SpecC == InitC /\ [][NextC]_vars

\* A run is in flight from its snapshot load to the end of its save
InFlight(r) == runs[r].pc \in {"loaded", "checked", "solved"}

\* C7: at most one generation run is in flight per (month, year): the
\* intervals between a run's snapshot load and the end of its save never
\* overlap, and after both runs have finished the persisted assignments are
\* the solution of exactly one of them.
C7_OneRunInFlight ==
    /\ ~(InFlight(1) /\ InFlight(2))
    /\ (runs[1].pc = "done" /\ runs[2].pc = "done" /\ IsFeasible(runs[1].solution)
            /\ IsFeasible(runs[2].solution))
          => \E r \in RunIds :
                db.assignments = CreateAssignments(runs[r].solution.assignments, World)

-----------------------------------------------------------------------------
(* Validator check: an assignment set is created for a snapshot and         *)
(* _detect_violations is run on it.                                         *)

InitV ==
    /\ \E ids \in ShiftSets, m \in {0, 2}, c \in Configurations, st \in Staffing :
            snap = Snapshot(ids, m, c, st)
    /\ assigned \in SUBSET ({1, 2} \X (1..MaxShifts))
    /\ \A p \in assigned : p[2] <= Len(snap.shifts)
    /\ report = [done |-> FALSE, violations |-> <<>>]
    /\ IdleP /\ IdleL /\ IdleC /\ IdleS

Validate ==
    /\ ~report.done
    /\ report' = [done |-> TRUE,
                  violations |-> DetectViolations(CreateAssignments(assigned, snap), snap)]
    /\ UNCHANGED <<snap, assigned, db, configActive, last, streak, runs, request, loaded, tables, built>>

\* solution = solver.solve() for a month that has no roster yet; the solver
\* reads the snapshot only, so its results are the same over any persisted roster
SolveSnapshot ==
    /\ ~report.done /\ assigned = {} /\ runs[1].pc = "idle"
    /\ \E solution \in SolverResults(snap) :
            /\ assigned' = solution.assignments
            /\ runs' = [runs EXCEPT ![1] = [pc |-> "solved", solution |-> solution]]
    /\ UNCHANGED <<snap, report, db, configActive, last, streak, request, loaded, tables, built>>

NextV == Validate \/ SolveSnapshot

SpecV == InitV /\ [][NextV]_vars

-----------------------------------------------------------------------------
(* Claims on the validator and the builder *)

ValidSnapshot(data) == data.configuration.max_consecutive_shifts >= 1

\* C1: for every valid snapshot and every assignment set that satisfies all
\* eight hard constraints of build_all_hard_constraints, _detect_violations
\* run on that assignment set yields an empty violation list.
C1_ValidatorAgreesWithBuilder ==
    (report.done /\ ValidSnapshot(snap) /\ BuildAllHardConstraints(assigned, snap))
        => report.violations = <<>>

\* A non-empty roster over three shifts that satisfies the builder was validated
C1_Witness ==
    /\ report.done
    /\ ValidSnapshot(snap)
    /\ BuildAllHardConstraints(assigned, snap)
    /\ Len(snap.shifts) = 3
    /\ Cardinality(assigned) >= 3
    /\ snap.configuration.min_rest_hours_between_shifts >= 12

HardRules == {"coverage", "leave", "workload", "consecutive", "rest",
              "single_day_off", "max_days_off", "skill_mix"}

RuleHolds(rule, x, data) ==
    CASE rule = "coverage" -> CoverageConstraints(x, data)
      [] rule = "leave" -> LeaveConstraints(x, data)
      [] rule = "workload" -> ShiftCountConstraints(x, data)
      [] rule = "consecutive" -> ConsecutiveShiftConstraints(x, data)
      [] rule = "rest" -> RestPeriodConstraints(x, data)
      [] rule = "single_day_off" -> SingleDayOffConstraints(x, data)
      [] rule = "max_days_off" -> MaxConsecutiveDaysOffConstraints(x, data)
      [] rule = "skill_mix" -> SkillMixConstraints(x, data)

BreaksOnly(rule, x, data) ==
    /\ ~RuleHolds(rule, x, data)
    /\ \A other \in HardRules \ {rule} : RuleHolds(other, x, data)

\* The violation kinds that report a broken rule; a rule with no kind of its
\* own is reported by any violation at all
KindsReporting(rule) ==
    CASE rule = "coverage" -> {"under_coverage"}
      [] rule = "workload" -> {"under_min_shifts", "over_max_shifts"}
      [] rule = "consecutive" -> {"too_many_consecutive_shifts"}
      [] rule = "rest" -> {"insufficient_rest"}
      [] OTHER -> {"under_coverage", "under_min_shifts", "over_max_shifts",
                   "too_many_consecutive_shifts", "insufficient_rest"}

Reported(rule) ==
    \E i \in DOMAIN report.violations :
        report.violations[i].violation_type \in KindsReporting(rule)

\* C2: for any assignment set that breaks one hard rule of the builder while
\* satisfying the others, _detect_violations emits the violation of the
\* broken rule, so its list is non-empty.
C2_ValidatorChecksEveryRule ==
    (report.done /\ ValidSnapshot(snap))
        => \A rule \in HardRules : BreaksOnly(rule, assigned, snap) => Reported(rule)

\* The part of C2 the validator does implement: the four rules it re-checks
C2_CheckedRulesReported ==
    (report.done /\ ValidSnapshot(snap))
        => \A rule \in {"coverage", "workload", "consecutive", "rest"} :
               BreaksOnly(rule, assigned, snap) => Reported(rule)

-----------------------------------------------------------------------------
(* Claims on the single hard constraints *)

\* The roster in `assigned` is a solution the solver returned as OPTIMAL or FEASIBLE
Returned == runs[1].pc = "solved" /\ IsFeasible(runs[1].solution)

\* Number of doctors the roster puts on the shift at position s
AssignedCount(s) == Cardinality({p \in assigned : p[2] = s})

\* The reported violations of one kind
ReportedOfKind(kind) ==
    SelectSeq(report.violations, LAMBDA v : v.violation_type = kind)

\* C11: in every solution returned as OPTIMAL or FEASIBLE every shift of the
\* snapshot has at least m_s assigned doctors (m_s the bound the code computes
\* for the shift), and the validator emits one under_coverage error for
\* exactly each shift whose assigned count is below m_s.
C11_Coverage ==
    /\ Returned =>
          \A s \in ShiftPositions(snap) : AssignedCount(s) >= MinRequired(snap, snap.shifts[s])
    /\ report.done =>
          LET under == {s \in ShiftPositions(snap) :
                            AssignedCount(s) < MinRequired(snap, snap.shifts[s])}
              emitted == ReportedOfKind("under_coverage")
          IN  /\ Len(emitted) = Cardinality(under)
              /\ \A s \in under :
                    \E i \in DOMAIN emitted :
                        /\ emitted[i].severity = "error"
                        /\ emitted[i].description[1] = ShiftId(snap.shifts[s])

\* A returned solution for a snapshot whose shifts carry their own bound of two,
\* validated
C11_Witness ==
    /\ Returned /\ report.done
    /\ Len(snap.shifts) >= 2
    /\ \A s \in ShiftPositions(snap) :
          MinRequired(snap, snap.shifts[s]) = 2 /\ AssignedCount(s) = 2

\* m_s of the specification: the shift's own min_doctors when present, the
\* configuration default when absent; Shift.min_doctors is a NOT NULL column, so
\* the override of a loaded shift is always present
CoverageBound(data, shift) == shift.min_doctors

\* C12: the coverage bound used by the builder and by the validator is the
\* shift's own min_doctors whenever that override is present, the value 0
\* included, and the configuration default only when the override is absent.
C12_OverrideIsCoverageBound ==
    /\ CoverageConstraints(assigned, snap) <=>
          \A s \in ShiftPositions(snap) : AssignedCount(s) >= CoverageBound(snap, snap.shifts[s])
    /\ report.done =>
          \A s \in ShiftPositions(snap) :
              (\E i \in DOMAIN report.violations :
                    /\ report.violations[i].violation_type = "under_coverage"
                    /\ report.violations[i].description[1] = ShiftId(snap.shifts[s]))
                  <=> AssignedCount(s) < CoverageBound(snap, snap.shifts[s])

\* C13: in every solution returned as OPTIMAL or FEASIBLE no doctor is assigned
\* to a shift whose date is in the doctor's leave dates; the shifts of a date
\* covered by a doctor's approved leave go to other doctors.
C13_LeaveRespected ==
    Returned =>
        \A p \in assigned : snap.shifts[p[2]].date \notin snap.approved_leave[snap.doctors[p[1]]]

\* A returned solution in which a shift on a doctor's leave date is worked by the
\* other doctor
C13_Witness ==
    /\ Returned
    /\ \E p \in assigned, d \in DoctorPositions(snap) :
          /\ d # p[1]
          /\ snap.shifts[p[2]].date \in snap.approved_leave[snap.doctors[d]]

\* Number of shifts the roster gives the doctor at position d
ShiftCount(d) == Cardinality({p \in assigned : p[1] = d})

\* The validator reported a violation of the kind and severity for the doctor
ReportedFor(kind, severity, doctor) ==
    \E i \in DOMAIN report.violations :
        /\ report.violations[i].violation_type = kind
        /\ report.violations[i].severity = severity
        /\ report.violations[i].doctor = doctor

\* C14: in every solution returned as OPTIMAL or FEASIBLE every doctor has
\* between min_shifts_per_doctor and max_shifts_per_doctor shifts; the validator
\* emits under_min_shifts (warning) for a doctor exactly when the count is below
\* the minimum and over_max_shifts (error) exactly when it is above the maximum.
C14_WorkloadBounds ==
    LET config == snap.configuration
    IN  /\ Returned =>
              \A d \in DoctorPositions(snap) :
                  /\ ShiftCount(d) >= config.min_shifts_per_doctor
                  /\ ShiftCount(d) <= config.max_shifts_per_doctor
        /\ report.done =>
              \A d \in DoctorPositions(snap) :
                  /\ ReportedFor("under_min_shifts", "warning", snap.doctors[d])
                        <=> ShiftCount(d) < config.min_shifts_per_doctor
                  /\ ReportedFor("over_max_shifts", "error", snap.doctors[d])
                        <=> ShiftCount(d) > config.max_shifts_per_doctor
                  /\ \A i \in DOMAIN report.violations :
                        report.violations[i].violation_type \in {"under_min_shifts", "over_max_shifts"}
                            => report.violations[i].severity =
                                  (IF report.violations[i].violation_type = "under_min_shifts"
                                   THEN "warning" ELSE "error")

\* A returned solution that gives both doctors exactly the maximum of one shift
\* where a second shift for either would be allowed by every other constraint
C14_Witness ==
    /\ Returned /\ report.done
    /\ snap.configuration.max_shifts_per_doctor = 1
    /\ Len(snap.shifts) = 2
    /\ \A d \in DoctorPositions(snap) : ShiftCount(d) = 1
    /\ \E p \in (DoctorPositions(snap) \X ShiftPositions(snap)) \ assigned :
          CoverageConstraints(assigned \cup {p}, snap)
              /\ LeaveConstraints(assigned \cup {p}, snap)
              /\ ConsecutiveShiftConstraints(assigned \cup {p}, snap)
              /\ RestPeriodConstraints(assigned \cup {p}, snap)

\* The doctor at position d works every one of the K + 1 contiguous shift
\* positions that start at position first
WorksWholeWindow(d, first, K) == \A j \in first..(first + K) : <<d, j>> \in assigned

\* C15: with K = max_consecutive_shifts, in every solution returned as OPTIMAL
\* or FEASIBLE every window of K + 1 contiguous shift positions holds at most K
\* assigned positions of a doctor; when the snapshot has at most K shifts the
\* builder posts no window constraint.
C15_NoMoreThanKInARow ==
    LET K == snap.configuration.max_consecutive_shifts
        S == Len(snap.shifts)
    IN  /\ Returned =>
              \A d \in DoctorPositions(snap) :
                  \A i \in 0..(S - K - 1) : ~WorksWholeWindow(d, i + 1, K)
        /\ S <= K => ConsecutiveShiftConstraints(assigned, snap)
        /\ ConsecutiveShiftConstraints(assigned, snap) <=>
              \A d \in DoctorPositions(snap) :
                  \A i \in 0..(S - K - 1) : ~WorksWholeWindow(d, i + 1, K)

\* A returned solution over three shifts with K = 2 in which a doctor works two
\* shifts in a row
C15_Witness ==
    /\ Returned
    /\ Len(snap.shifts) = 3
    /\ snap.configuration.max_consecutive_shifts = 2
    /\ \E d \in DoctorPositions(snap) : <<d, 2>> \in assigned /\ <<d, 3>> \in assigned

\* Positions s with a night shift at s and a day shift at s + 1 at most one day later
NightToDay(data) ==
    {s \in 1..(Len(data.shifts) - 1) :
        /\ data.shifts[s].kind = "night"
        /\ data.shifts[s + 1].kind = "day"
        /\ data.shifts[s + 1].date - data.shifts[s].date <= 1}

\* C16: when min_rest_hours_between_shifts >= 12, in every solution returned as
\* OPTIMAL or FEASIBLE no doctor is assigned both to a night shift at position
\* s and to a day shift at position s + 1 at most one day apart; when it is
\* below 12 the builder posts no rest constraint and the validator emits no
\* insufficient_rest violation.
C16_NightToDaySpacing ==
    IF snap.configuration.min_rest_hours_between_shifts >= 12
    THEN Returned =>
            \A d \in DoctorPositions(snap), s \in NightToDay(snap) :
                ~(<<d, s>> \in assigned /\ <<d, s + 1>> \in assigned)
    ELSE /\ RestPeriodConstraints(assigned, snap)
         /\ report.done => Len(ReportedOfKind("insufficient_rest")) = 0

\* A returned solution, under a rest of 12 hours, for a month with a night shift
\* followed by the next date's day shift, worked by different doctors
C16_Witness ==
    /\ Returned
    /\ snap.configuration.min_rest_hours_between_shifts >= 12
    /\ \E s \in NightToDay(snap) :
          \E d, e \in DoctorPositions(snap) :
              d # e /\ <<d, s>> \in assigned /\ <<e, s + 1>> \in assigned

-----------------------------------------------------------------------------
(* Skill mix: the snapshots carry one requirement of any scope, with or     *)
(* without a specialty, under a configuration that leaves the other rules   *)
(* slack; the month has no roster yet when the solver runs.                 *)

SlackConfiguration ==
    [min_shifts_per_doctor |-> 0, max_shifts_per_doctor |-> 3,
     default_min_doctors_per_shift |-> 1,
     max_consecutive_shifts |-> 2,
     min_rest_hours_between_shifts |-> 0,
     max_consecutive_days_off |-> 3, avoid_single_day_off |-> FALSE]

AppliesTo == {"all", "day", "night", "weekday", "weekend"}

\* (approved_leave, shift_requirements, doctors_by_specialty) with one requirement
SkillStaffing ==
    {[leave |-> NoLeave, reqs |-> {Requirement(a, sp, n)},
      by_specialty |-> [x \in {"X"} |-> holders]] :
        a \in AppliesTo, sp \in {"X"}, n \in 0..2, holders \in {{}, {1}, {1, 2}}}
    \cup {[leave |-> NoLeave, reqs |-> {Requirement(a, "none", 1)},
            by_specialty |-> [x \in {"X"} |-> {1}]] : a \in AppliesTo}

InitM ==
    /\ \E ids \in ShiftSets, st \in SkillStaffing :
            snap = Snapshot(ids, 0, SlackConfiguration, st)
    /\ assigned = {}
    /\ report = [done |-> FALSE, violations |-> <<>>]
    /\ IdleP /\ IdleL /\ IdleC /\ IdleS

SpecM == InitM /\ [][NextV]_vars

\* The requirement applies to the shift: all; day or night by kind; weekday is
\* Monday to Friday, weekend Saturday and Sunday
Applies(req, shift) ==
    \/ req.applies_to = "all"
    \/ req.applies_to = shift.kind
    \/ req.applies_to = "weekday" /\ Weekday(shift.date) \in 0..4
    \/ req.applies_to = "weekend" /\ Weekday(shift.date) \in {5, 6}

\* Positions of the active doctors that hold the requirement's specialty
Holders(req) ==
    {d \in DoctorPositions(snap) : snap.doctors[d] \in snap.doctors_by_specialty[req.required_specialty]}

\* C17: in every solution returned as OPTIMAL or FEASIBLE, for every shift and
\* every requirement that applies to it with a required specialty,
\* min_with_specialty > 0 and at least one active doctor holding the
\* specialty, at least min_with_specialty holders are assigned to the shift.
C17_SkillMix ==
    Returned =>
        \A s \in ShiftPositions(snap), req \in snap.shift_requirements :
            (/\ Applies(req, snap.shifts[s])
             /\ req.required_specialty # "none"
             /\ req.min_with_specialty > 0
             /\ Holders(req) # {})
                => Cardinality({d \in Holders(req) : <<d, s>> \in assigned}) >= req.min_with_specialty

\* A returned solution for a month with a Friday and a Saturday shift and a
\* weekend requirement of one holder: the only holder works the Saturday and
\* not the Friday
C17_Witness ==
    /\ Returned
    /\ \E req \in snap.shift_requirements :
          /\ req.applies_to = "weekend" /\ req.required_specialty = "X"
          /\ req.min_with_specialty = 1
          /\ Cardinality(Holders(req)) = 1
          /\ \E s, u \in ShiftPositions(snap), d \in Holders(req) :
                /\ Weekday(snap.shifts[s].date) = 5 /\ <<d, s>> \in assigned
                /\ Weekday(snap.shifts[u].date) = 4 /\ <<d, u>> \notin assigned

\* The requirements of the snapshot that name a specialty no active doctor holds
EmptySpecialtyRequirements ==
    {req \in snap.shift_requirements :
        /\ req.required_specialty # "none"
        /\ req.min_with_specialty > 0
        /\ Holders(req) = {}}

\* C18: when a requirement with min_with_specialty > 0 names a specialty that
\* no active doctor holds, the builder posts no constraint for it, and the
\* validator emits a warning-severity violation for it.
C18_EmptySpecialtyWarned ==
    EmptySpecialtyRequirements # {} =>
        /\ SkillMixConstraints(assigned, snap)
        /\ report.done =>
              \E i \in DOMAIN report.violations :
                  /\ report.violations[i].severity = "warning"
                  /\ report.violations[i].violation_type # "under_min_shifts"

-----------------------------------------------------------------------------
(* Days off: months whose shifts fall on up to four dates, with and without *)
(* calendar gaps, under configurations that leave the other rules slack;    *)
(* the roster is any persisted one, or the solver's for an empty month.     *)

DayOffDates == 1..4

DayOffConfigurations ==
    {[min_shifts_per_doctor |-> 0, max_shifts_per_doctor |-> 4,
      default_min_doctors_per_shift |-> 0,
      max_consecutive_shifts |-> 4,
      min_rest_hours_between_shifts |-> 0,
      max_consecutive_days_off |-> M, avoid_single_day_off |-> avoid] :
        M \in 1..2, avoid \in BOOLEAN}

DayOffShiftSets == {ids \in SUBSET (DayOffDates \X Kinds) : Cardinality(ids) <= MaxShifts}

InitD ==
    /\ \E ids \in DayOffShiftSets, c \in DayOffConfigurations :
            snap = Snapshot(ids, 0, c, [leave |-> NoLeave, reqs |-> {},
                                        by_specialty |-> [x \in {"X"} |-> {}]])
    /\ assigned \in SUBSET (DoctorIds \X (1..MaxShifts))
    /\ \A p \in assigned : p[2] <= Len(snap.shifts)
    /\ report = [done |-> FALSE, violations |-> <<>>]
    /\ IdleP /\ IdleL /\ IdleC /\ IdleS

SpecD == InitD /\ [][NextV]_vars

\* Some shift of the snapshot falls on the date
HasShifts(date) == \E s \in ShiftPositions(snap) : snap.shifts[s].date = date

\* The roster gives the doctor at position d some shift on the date
Works(d, date) ==
    \E s \in ShiftPositions(snap) : snap.shifts[s].date = date /\ <<d, s>> \in assigned

\* No doctor works t and t + 2 but not t + 1, for calendar dates t, t + 1, t + 2
\* that all have shifts
NoSingleDayOff ==
    \A d \in DoctorPositions(snap), t \in DayOffDates :
        (HasShifts(t) /\ HasShifts(t + 1) /\ HasShifts(t + 2))
            => ~(Works(d, t) /\ Works(d, t + 2) /\ ~Works(d, t + 1))

\* C19: when avoid_single_day_off is set, in every solution returned as OPTIMAL
\* or FEASIBLE no doctor works some shift on t and on t + 2 but none on t + 1,
\* for three consecutive calendar dates that all have shifts; triples of dates
\* that are not consecutive are not constrained, and nothing is posted when the
\* flag is off.
C19_AvoidSingleDayOff ==
    /\ (Returned /\ snap.configuration.avoid_single_day_off) => NoSingleDayOff
    /\ SingleDayOffConstraints(assigned, snap) <=>
          (snap.configuration.avoid_single_day_off => NoSingleDayOff)

\* A returned solution, the flag set, for shifts on three consecutive dates, in
\* which a doctor works the first and the third date
C19_Witness ==
    /\ Returned
    /\ snap.configuration.avoid_single_day_off
    /\ \E t \in DayOffDates, d \in DoctorPositions(snap) :
          /\ HasShifts(t) /\ HasShifts(t + 1) /\ HasShifts(t + 2)
          /\ Works(d, t) /\ Works(d, t + 2)

\* Every doctor works in every window of M + 1 consecutive calendar dates that
\* all have shifts
NoLongBreak ==
    LET M == snap.configuration.max_consecutive_days_off
    IN  \A d \in DoctorPositions(snap), t \in DayOffDates :
            (\A j \in t..(t + M) : HasShifts(j)) => \E j \in t..(t + M) : Works(d, j)

\* C20: with M = max_consecutive_days_off, in every solution returned as
\* OPTIMAL or FEASIBLE every doctor has a shift in every window of M + 1
\* consecutive calendar dates that all have shifts; windows with a calendar gap
\* are not constrained, and no window is posted when fewer than M + 1 dates
\* have shifts.
C20_MaxConsecutiveDaysOff ==
    /\ Returned => NoLongBreak
    /\ MaxConsecutiveDaysOffConstraints(assigned, snap) <=> NoLongBreak
    /\ Len(SortedDates(snap)) < snap.configuration.max_consecutive_days_off + 1
          => MaxConsecutiveDaysOffConstraints(assigned, snap)

\* A returned solution with M = 2 for shifts on three consecutive dates in which
\* a doctor works on one of the dates only
C20_Witness ==
    /\ Returned
    /\ snap.configuration.max_consecutive_days_off = 2
    /\ \E t \in DayOffDates, d \in DoctorPositions(snap) :
          /\ HasShifts(t) /\ HasShifts(t + 1) /\ HasShifts(t + 2)
          /\ ~Works(d, t) /\ ~Works(d, t + 1) /\ Works(d, t + 2)

-----------------------------------------------------------------------------
(* Runs of shifts: a month of MaxPositions shifts, long enough for a run, a *)
(* break and a second run, under configurations that leave all rules but    *)
(* the consecutive cap slack; the roster is any persisted one, or the       *)
(* solver's for an empty month.                                             *)

MaxPositions == 5    \* shifts of the month in the check of the runs

RunConfigurations ==
    {[min_shifts_per_doctor |-> 0, max_shifts_per_doctor |-> MaxPositions + 1,
      default_min_doctors_per_shift |-> 0,
      max_consecutive_shifts |-> K,
      min_rest_hours_between_shifts |-> 0,
      max_consecutive_days_off |-> MaxPositions + 1, avoid_single_day_off |-> FALSE] :
        K \in 1..3}

\* The first MaxPositions shifts of a month with a day and a night shift per date
RunShiftIds ==
    LET all == OrderByDateKind((1..((MaxPositions + 1) \div 2)) \X Kinds)
    IN  {all[i] : i \in 1..MaxPositions}

InitK ==
    /\ \E c \in RunConfigurations :
            snap = Snapshot(RunShiftIds, 0, c, [leave |-> NoLeave, reqs |-> {},
                                                by_specialty |-> [x \in {"X"} |-> {}]])
    /\ assigned \in SUBSET (DoctorIds \X (1..MaxPositions))
    /\ report = [done |-> FALSE, violations |-> <<>>]
    /\ IdleP /\ IdleL /\ IdleC /\ IdleS

SpecK == InitK /\ [][NextV]_vars

\* C26: with K = max_consecutive_shifts >= 1, for every doctor and every
\* assignment set, _check_consecutive_shift_violations emits a
\* too_many_consecutive_shifts violation for the doctor if and only if some
\* window of K + 1 contiguous shift positions is fully assigned to the doctor,
\* and it emits at most one such violation per doctor.
C26_RunDetectionIsWindowRule ==
    LET K == snap.configuration.max_consecutive_shifts
        S == Len(snap.shifts)
        emitted(d) ==
            SelectSeq(report.violations,
                      LAMBDA v : v.violation_type = "too_many_consecutive_shifts"
                                    /\ v.doctor = snap.doctors[d])
    IN  (report.done /\ K >= 1) =>
            \A d \in DoctorPositions(snap) :
                /\ Len(emitted(d)) <= 1
                /\ Len(emitted(d)) = 1 <=>
                      \E i \in 0..(S - K - 1) : WorksWholeWindow(d, i + 1, K)
                /\ Len(emitted(d)) = 1 <=>
                      ~ConsecutiveShiftConstraints({p \in assigned : p[1] = d}, snap)

\* A validated roster with K = 2 in which one doctor works two runs of two
\* shifts with a break between them, unreported, and the other a run of three,
\* reported
C26_Witness ==
    /\ report.done
    /\ snap.configuration.max_consecutive_shifts = 2
    /\ {s \in ShiftPositions(snap) : <<1, s>> \in assigned} = {1, 2, 4, 5}
    /\ {s \in ShiftPositions(snap) : <<2, s>> \in assigned} = {2, 3, 4}
    /\ ~ReportedFor("too_many_consecutive_shifts", "error", snap.doctors[1])
    /\ ReportedFor("too_many_consecutive_shifts", "error", snap.doctors[2])

\* C27: for snapshots with at most one shift per (date, kind) and
\* min_rest_hours_between_shifts >= 12, for every assignment set, the validator
\* emits insufficient_rest for a doctor if and only if the doctor's assignments
\* violate some rest constraint x[d, s] + x[d, s + 1] <= 1 of the builder.
C27_RestDetectionIsBuilderRule ==
    (report.done /\ snap.configuration.min_rest_hours_between_shifts >= 12) =>
        \A d \in DoctorPositions(snap) :
            ReportedFor("insufficient_rest", "error", snap.doctors[d])
                <=> ~RestPeriodConstraints({p \in assigned : p[1] = d}, snap)

\* A validated roster under a 12-hour rest rule in which one doctor works a
\* night and the next day's day shift, reported, and the other a night and a day
\* shift two dates later, unreported
C27_Witness ==
    /\ report.done
    /\ snap.configuration.min_rest_hours_between_shifts >= 12
    /\ Len(snap.shifts) = 3
    /\ snap.shifts[1].kind = "night" /\ snap.shifts[2].kind = "day"
    /\ snap.shifts[3].kind = "day"
    /\ snap.shifts[2].date = snap.shifts[1].date + 1
    /\ snap.shifts[3].date = snap.shifts[1].date + 2
    /\ {p \in assigned : p[1] = 1} = {<<1, 1>>, <<1, 2>>}
    /\ {p \in assigned : p[1] = 2} = {<<2, 1>>, <<2, 3>>}
    /\ ReportedFor("insufficient_rest", "error", snap.doctors[1])
    /\ ~ReportedFor("insufficient_rest", "error", snap.doctors[2])

-----------------------------------------------------------------------------
(* Leave over a whole window: the months of the days-off check, with        *)
(* approved leave that covers one date, two dates or three dates of a       *)
(* doctor; the solver runs on the empty roster.                             *)

LeaveChoices ==
    {NoLeave,
     [NoLeave EXCEPT ![1] = {2}],
     [NoLeave EXCEPT ![1] = {1, 2}],
     [NoLeave EXCEPT ![2] = {2, 3, 4}]}

InitW ==
    /\ \E ids \in DayOffShiftSets, c \in DayOffConfigurations, lv \in LeaveChoices :
            snap = Snapshot(ids, 0, c, [leave |-> lv, reqs |-> {},
                                        by_specialty |-> [x \in {"X"} |-> {}]])
    /\ assigned = {}
    /\ report = [done |-> FALSE, violations |-> <<>>]
    /\ IdleP /\ IdleL /\ IdleC /\ IdleS

SpecW == InitW /\ [][NextV]_vars

\* The approved leave of some doctor of the snapshot covers every date of a
\* window of max_consecutive_days_off + 1 consecutive dates that all have shifts
LeaveCoversWindow ==
    LET M == snap.configuration.max_consecutive_days_off
    IN  \E d \in DoctorPositions(snap), t \in DayOffDates :
            \A j \in t..(t + M) :
                HasShifts(j) /\ j \in snap.approved_leave[snap.doctors[d]]

\* C28: if some active doctor's approved leave covers every date of a window of
\* max_consecutive_days_off + 1 consecutive dates that all have shifts, the
\* model has no satisfying assignment: the run ends with a status that is not
\* OPTIMAL or FEASIBLE and with no roster for any doctor.
C28_LeaveOverWindowIsInfeasible ==
    (LeaveCoversWindow /\ runs[1].pc = "solved") =>
        /\ ~IsFeasible(runs[1].solution)
        /\ runs[1].solution.assignments = {}
        /\ assigned = {}
        /\ \A x \in SUBSET AllPairs(snap) : ~BuildAllHardConstraints(x, snap)

\* A run the engine ended as INFEASIBLE for a month in which a doctor is on
\* leave on all three dates of a window, under max_consecutive_days_off = 2
C28_Witness ==
    /\ LeaveCoversWindow
    /\ snap.configuration.max_consecutive_days_off = 2
    /\ runs[1].pc = "solved"
    /\ runs[1].solution.status = "INFEASIBLE"

-----------------------------------------------------------------------------
(* Re-validation: validate_schedule_task on a schedule whose assignments    *)
(* were edited by hand in the admin. Doctors 1 and 2 are active, doctor 3   *)
(* is not; the shift of date 0 belongs to the month before the target one.  *)

MaxEdited == 2    \* assignments a hand-edited schedule holds at most

\* The ids of the shifts in the snapshot
SnapshotShiftIds(data) == {ShiftId(data.shifts[s]) : s \in ShiftPositions(data)}

\* The (doctor, shift) rows an admin can enter for the schedule
EditablePairs ==
    (DoctorIds \cup {3}) \X (SnapshotShiftIds(World) \cup {<<0, "night">>})

\* Violations an earlier run left on the schedule
StaleViolations ==
    {EmptyBag, SeqToBag(<<Violation("over_max_shifts", "error", 1, <<3, 2>>)>>)}

\* [(data.doctor_index[a.doctor.id], data.shift_index[a.shift.id]) for a in ...]:
\* the dictionary lookups raise KeyError for a doctor or a shift the snapshot
\* does not hold
AssignmentLookupRaises(asg, data) ==
    \E a \in asg : a[1] \notin Range(data.doctors) \/ a[2] \notin SnapshotShiftIds(data)

\* _check_consecutive_shift_violations: self.data.shift_index[a.shift.id] over the
\* assignments of each doctor of the snapshot raises KeyError for a shift the
\* snapshot does not hold
DetectViolationsRaises(asg, data) ==
    \E a \in asg : a[1] \in Range(data.doctors) /\ a[2] \notin SnapshotShiftIds(data)

\* The dictionary validate_schedule_task returns
TaskResult(status, error, violations) ==
    [done |-> TRUE, status |-> status, error |-> error,
     violation_count |-> Len(violations), violations |-> violations]

InitE ==
    /\ snap = World
    /\ assigned = {}
    /\ report = [done |-> FALSE, violations |-> <<>>]
    /\ \/ db = NoSchedule
       \/ \E asg \in SUBSET EditablePairs, stale \in StaleViolations,
             status \in {"draft", "finalized"} :
            /\ Cardinality(asg) <= MaxEdited
            /\ db = [exists |-> TRUE, status |-> status, solver_status |-> "OPTIMAL",
                     solver_time_seconds |-> <<1>>, objective_value |-> <<2>>, notes |-> "",
                     assignments |-> asg, violations |-> stale]
    /\ configActive \in BOOLEAN
    /\ last = [op |-> "init", outcome |-> "none", month |-> Target.month,
               solution |-> NoSolution, writes |-> 0]
    /\ streak = NoStreak
    /\ IdleL /\ IdleC /\ IdleS

\* validate_schedule_task(schedule_id): the whole task, with its two handlers
ValidateScheduleTask ==
    LET data == snap
        outcome ==
            IF ~db.exists
            THEN [rows |-> db, result |-> TaskResult("ERROR", "Schedule not found", <<>>)]
            ELSE IF ~configActive
            THEN [rows |-> db,
                  result |-> TaskResult("ERROR", "No active schedule configuration found",
                                        <<>>)]
            ELSE IF AssignmentLookupRaises(db.assignments, data)
                    \/ DetectViolationsRaises(db.assignments, data)
            THEN [rows |-> db, result |-> TaskResult("ERROR", "KeyError", <<>>)]
            ELSE LET violations == DetectViolations(db.assignments, data)
                 IN  [rows |-> SaveViolations(db, violations),
                      result |-> TaskResult("SUCCESS", "", violations)]
    IN  /\ db' = outcome.rows
        /\ report' = outcome.result
        /\ last' = [op |-> "validate_schedule_task",
                    outcome |-> outcome.result.status, month |-> Target.month,
                    solution |-> NoSolution, writes |-> 0]
        /\ UNCHANGED <<snap, assigned, configActive, streak, runs, request, loaded,
                       tables, built>>

\* ShiftAssignmentAdmin: an assignment of the schedule is added or deleted by hand
AdminEditAssignment ==
    /\ db.exists
    /\ \E pair \in EditablePairs :
            LET edited == IF pair \in db.assignments
                          THEN db.assignments \ {pair}
                          ELSE db.assignments \cup {pair}
            IN  /\ Cardinality(edited) <= MaxEdited
                /\ db' = [db EXCEPT !.assignments = edited]
    /\ last' = [op |-> "admin_edit", outcome |-> "none", month |-> Target.month,
                solution |-> NoSolution, writes |-> 0]
    /\ UNCHANGED <<snap, assigned, report, configActive, streak, runs, request, loaded,
                   tables, built>>

NextE == ValidateScheduleTask \/ AdminEditAssignment

SpecE == InitE /\ [][NextE]_vars

\* C24: validate(scheduleId) on an existing schedule re-derives the violations
\* from the persisted assignments, replaces the persisted violations by exactly
\* that set (deleting all prior ones also when the new set is empty), returns
\* its count, and leaves assignments, status and solver metadata unchanged.
C24_ValidateReplacesViolations ==
    [][(last'.op = "validate_schedule_task" /\ db.exists)
          => /\ report'.status = "SUCCESS"
             /\ report'.violation_count = Len(report'.violations)
             /\ db' = [db EXCEPT !.violations = SeqToBag(report'.violations)]
             /\ ~AssignmentLookupRaises(db.assignments, snap)
                   => report'.violations = DetectViolations(db.assignments, snap)]_vars

\* C25: the validator never raises, also for a hand-edited assignment to a
\* shift that is not in the month's snapshot or of a doctor who is no longer
\* active: _detect_violations completes and returns a list.
C25_ValidatorNeverRaises ==
    (/\ last.op = "validate_schedule_task"
     /\ report.error \notin {"Schedule not found", "No active schedule configuration found"})
        => /\ report.status = "SUCCESS"
           /\ ~DetectViolationsRaises(db.assignments, snap)

-----------------------------------------------------------------------------
(* Snapshot loading: SchedulerData.__init__ over the rows of the doctor,    *)
(* shift and leave tables. A date is the number of days from 31 December of *)
(* the year before MinYear, so that date arithmetic is integer arithmetic.  *)

\* The days of month m of year y, February by the leap-year rule of datetime
DaysInMonth(y, m) ==
    IF m = 2 THEN (IF y % 4 = 0 /\ (y % 100 # 0 \/ y % 400 = 0) THEN 29 ELSE 28)
    ELSE IF m \in {4, 6, 9, 11} THEN 30 ELSE 31

\* The days from the first of January of MinYear to the first of month m of year y
RECURSIVE DaysBefore(_, _)
DaysBefore(y, m) ==
    IF y = MinYear /\ m = 1 THEN 0
    ELSE IF m = 1 THEN DaysBefore(y - 1, 12) + DaysInMonth(y - 1, 12)
    ELSE DaysBefore(y, m - 1) + DaysInMonth(y, m - 1)

\* datetime.date(y, m, d)
Date(y, m, d) == DaysBefore(y, m) + d

\* date.year and date.month
YearOf(date) ==
    CHOOSE y \in MinYear..(MinYear + 1) : Date(y, 1, 1) <= date /\ date < Date(y + 1, 1, 1)
MonthOf(date) ==
    LET y == YearOf(date)
    IN  CHOOSE m \in 1..12 : Date(y, m, 1) <= date /\ date < Date(y, m, 1) + DaysInMonth(y, m)

\* first_day and last_day of _load_approved_leave
FirstDay(month, year) == Date(year, month, 1)
LastDay(month, year) ==
    IF month = 12 THEN Date(year + 1, 1, 1) - 1 ELSE Date(year, month + 1, 1) - 1

\* (a leave expansion that does not clip the interval to the month)
ExpandLeave_Unclipped(row, month, year) == row.start_date..row.end_date

\* current = max(start_date, first_day) ... while current <= min(end_date, last_day)
ExpandLeave(row, month, year) ==
    LET current == IF row.start_date >= FirstDay(month, year) THEN row.start_date
                   ELSE FirstDay(month, year)
        end == IF row.end_date <= LastDay(month, year) THEN row.end_date
               ELSE LastDay(month, year)
    IN  current..end

\* LeaveRequest.objects.filter(status='approved', start_date__lte=last_day,
\* end_date__gte=first_day)
ApprovedRequests(leave, month, year) ==
    {row \in leave : /\ row.status = "approved"
                     /\ row.start_date <= LastDay(month, year)
                     /\ row.end_date >= FirstDay(month, year)}

\* _load_approved_leave: per doctor id the dates appended, each as often as it
\* is appended (a doctor without a request has the empty list)
LoadApprovedLeave(tb, month, year) ==
    LET requests == ApprovedRequests(tb.leave, month, year)
        of(d) == {row \in requests : row.doctor = d}
        dates(d) == UNION {ExpandLeave(row, month, year) : row \in of(d)}
    IN  [d \in {row.id : row \in tb.doctors} |->
            IF dates(d) = {} THEN EmptyBag
            ELSE [date \in dates(d) |->
                    Cardinality({row \in of(d) : date \in ExpandLeave(row, month, year)})]]

\* The collation of the names in the tables
NameRank(name) == CASE name = "Adams" -> 1 [] name = "Ann" -> 2 [] name = "Baker" -> 3
                    [] name = "Bob" -> 4

\* ordering = ['last_name', 'first_name']: a row sorts before or with another
NameBefore(r, q) ==
    \/ NameRank(r.last_name) < NameRank(q.last_name)
    \/ r.last_name = q.last_name /\ NameRank(r.first_name) <= NameRank(q.first_name)

\* Doctor.objects.filter(active=True) under Meta.ordering: the lists the database
\* may return, rows with the same (last_name, first_name) in any order
ActiveDoctorLists(doctors) ==
    LET rows == {r \in doctors : r.active}
        n == Cardinality(rows)
    IN  {order \in [1..n -> rows] :
            /\ \A i, j \in 1..n : i # j => order[i] # order[j]
            /\ \A i, j \in 1..n : i < j => NameBefore(order[i], order[j])}

\* Shift.objects.filter(date__year=year, date__month=month).order_by('date', 'shift_type')
MonthShifts(shifts, month, year) ==
    OrderByDateKind({id \in shifts : YearOf(id[1]) = year /\ MonthOf(id[1]) = month})

\* {x.id: idx for idx, x in enumerate(xs)}: a later position replaces an earlier one
EnumerateIndex(ids) ==
    [id \in Range(ids) |->
        (CHOOSE k \in DOMAIN ids : ids[k] = id /\ \A j \in DOMAIN ids : ids[j] = id => j <= k)
            - 1]

\* for doctor in self.doctors: for specialty in doctor.specialties.all(): append
DoctorsBySpecialty(order) ==
    [sp \in UNION {order[i].specialties : i \in DOMAIN order} |->
        LET has(r) == sp \in r.specialties
            holders == SelectSeq(order, has)
        IN  [i \in DOMAIN holders |-> holders[i].id]]

LoaderConfiguration ==
    [min_shifts_per_doctor |-> 0, max_shifts_per_doctor |-> 1,
     default_min_doctors_per_shift |-> 1, max_consecutive_shifts |-> 2,
     min_rest_hours_between_shifts |-> 0, max_consecutive_days_off |-> 31,
     avoid_single_day_off |-> FALSE]

\* The SchedulerData objects SchedulerData(month, year) can construct over the tables
SchedulerDataResults(tb, month, year) ==
    {LET doctors == [i \in DOMAIN order |-> order[i].id]
         shifts == LoadShifts(Range(MonthShifts(tb.shifts, month, year)), 1)
         shift_ids == [i \in DOMAIN shifts |-> ShiftId(shifts[i])]
     IN  [month |-> month, year |-> year,
          configuration |-> LoaderConfiguration,
          doctors |-> doctors,
          shifts |-> shifts,
          shift_requirements |-> {},
          approved_leave |-> LoadApprovedLeave(tb, month, year),
          doctor_index |-> EnumerateIndex(doctors),
          shift_index |-> EnumerateIndex(shift_ids),
          doctors_by_specialty |-> DoctorsBySpecialty(order)] :
        order \in ActiveDoctorLists(tb.doctors)}

\* built' after one more construction over the tables as they are
Constructed(data) == built' = Append(built, [data |-> data, source |-> tables])

DoctorRow(id, last_name, first_name, active, specialties) ==
    [id |-> id, last_name |-> last_name, first_name |-> first_name, active |-> active,
     specialties |-> specialties]

-----------------------------------------------------------------------------
(* Leave expansion: one construction for a target month over leave rows     *)
(* that start and end around the first and the last day of the month.       *)

LeaveTargets ==
    {[month |-> 2, year |-> MinYear, active |-> TRUE],
     [month |-> 12, year |-> MinYear, active |-> TRUE],
     [month |-> 4, year |-> MinYear + 1, active |-> TRUE]}

LeaveRows(month, year) ==
    [doctor : {1, 3},
     start_date : {FirstDay(month, year) - 1, FirstDay(month, year) + 1, LastDay(month, year)},
     end_date : {FirstDay(month, year), LastDay(month, year) - 1, LastDay(month, year) + 1},
     status : {"pending", "approved", "rejected", "cancelled"}]

InitA ==
    /\ request \in LeaveTargets
    /\ \E leave \in {{}} \cup {{r, q} : r \in LeaveRows(request.month, request.year),
                                          q \in LeaveRows(request.month, request.year)} :
            /\ tables = [doctors |-> {DoctorRow(1, "Adams", "Ann", TRUE, {}),
                                      DoctorRow(2, "Baker", "Bob", TRUE, {}),
                                      DoctorRow(3, "Baker", "Ann", FALSE, {})},
                         shifts |-> {<<FirstDay(request.month, request.year), "day">>},
                         leave |-> leave]
    /\ built = <<>>
    /\ loaded = [done |-> FALSE, result |-> "ok", solved |-> FALSE]
    /\ IdleP /\ IdleV /\ IdleC

\* SchedulerData(month, year), called once
ConstructSnapshot ==
    /\ built = <<>>
    /\ SchedulerDataInit(request.month, request.year, configActive) = "ok"
    /\ \E data \in SchedulerDataResults(tables, request.month, request.year) :
            Constructed(data)
    /\ loaded' = [loaded EXCEPT !.done = TRUE]
    /\ UNCHANGED <<snap, assigned, report, db, configActive, last, streak, runs, request,
                   tables>>

SpecA == InitA /\ [][ConstructSnapshot]_vars

\* The dates of the month, day by day
MonthDates(month, year) == {Date(year, month, d) : d \in 1..DaysInMonth(year, month)}

\* C22: for every doctor d, the dates in leave_dates[d] are exactly the dates of
\* the target month, from first_day to last_day (December rolling over to the
\* next year), that lie inside some leave interval of d with status 'approved';
\* no date outside the target month and no date of a pending, rejected or
\* cancelled interval is included.
C22_LeaveExpansion ==
    \A i \in DOMAIN built :
        LET data == built[i].data
            tb == built[i].source
        IN  /\ FirstDay(data.month, data.year) = Date(data.year, data.month, 1)
            /\ LastDay(data.month, data.year)
                  = Date(data.year, data.month, DaysInMonth(data.year, data.month))
            /\ \A d \in DOMAIN data.approved_leave :
                  BagToSet(data.approved_leave[d])
                      = {date \in MonthDates(data.month, data.year) :
                            \E row \in tb.leave :
                                /\ row.doctor = d /\ row.status = "approved"
                                /\ row.start_date <= date /\ date <= row.end_date}

\* A snapshot for December in which a doctor's approved leave from the last day
\* of November into January gives all 31 dates of the month, next to a pending
\* request of the same doctor that gives none
C22_Witness ==
    /\ Len(built) = 1
    /\ built[1].data.month = 12
    /\ \E row \in tables.leave :
          /\ row.doctor = 1 /\ row.status = "approved"
          /\ row.start_date < FirstDay(12, MinYear) /\ row.end_date > LastDay(12, MinYear)
    /\ \E row \in tables.leave : row.doctor = 1 /\ row.status = "pending"
    /\ BagToSet(built[1].data.approved_leave[1]) = MonthDates(12, MinYear)
    /\ BagToSet(built[1].data.approved_leave[3]) = {}

-----------------------------------------------------------------------------
(* Snapshots in the entry points: generate_schedule_task and the            *)
(* test_scheduler command for December of MinYear, step by step, while an   *)
(* admin changes the doctor, shift and leave tables. runs[1] holds the      *)
(* position of the run and the solution of its solver.                      *)

ShiftPool ==
    {<<Date(MinYear, 11, 30), "night">>, <<Date(MinYear, 12, 1), "day">>,
     <<Date(MinYear, 12, 1), "night">>, <<Date(MinYear, 12, 2), "day">>,
     <<Date(MinYear + 1, 1, 1), "day">>}

DoctorTables ==
    {{DoctorRow(1, "Adams", "Bob", TRUE, {"X"}),
      DoctorRow(2, n2[1], n2[2], TRUE, {"X"}),
      DoctorRow(3, n3[1], n3[2], a3, {})} :
        n2 \in {<<"Adams", "Ann">>, <<"Adams", "Bob">>, <<"Baker", "Ann">>},
        n3 \in {<<"Adams", "Ann">>, <<"Adams", "Bob">>},
        a3 \in BOOLEAN}

InitS ==
    /\ request = [month |-> 12, year |-> MinYear, active |-> TRUE]
    /\ tables \in [doctors : DoctorTables,
                   shifts : {{}} \cup {{a, b} : a \in ShiftPool, b \in ShiftPool},
                   leave : {{}, {[doctor |-> 1, start_date |-> Date(MinYear, 12, 1),
                                  end_date |-> Date(MinYear, 12, 1),
                                  status |-> "approved"]}}]
    /\ built = <<>>
    /\ loaded = [done |-> FALSE, result |-> "ok", solved |-> FALSE]
    /\ IdleP /\ IdleV /\ IdleC

\* The snapshot as the builder and the validator read it: approved_leave.get(id, [])
\* is used for membership only
AsSolverData(data) ==
    [data EXCEPT !.approved_leave = [d \in DOMAIN @ |-> BagToSet(@[d])]]

\* ScheduleSolver.solve for a search the engine completes: OPTIMAL or INFEASIBLE
CompletedSearches(data) ==
    {s \in SolverResults(AsSolverData(data)) : s.status \in {"OPTIMAL", "INFEASIBLE"}}

\* get_doctor_by_index / get_shift_by_index raise IndexError for a position past
\* the end of the snapshot's list
CreateAssignmentsRaises(x, data) ==
    \E p \in x : p[1] > Len(data.doctors) \/ p[2] > Len(data.shifts)

\* generate_schedule_task: data = SchedulerData(month, year)
TaskLoadData ==
    /\ runs[1].pc = "idle"
    /\ \E data \in SchedulerDataResults(tables, request.month, request.year) :
            Constructed(data)
    /\ runs' = [runs EXCEPT ![1].pc = "task_loaded"]
    /\ UNCHANGED <<snap, assigned, report, db, configActive, last, streak, request, loaded,
                   tables>>

\* test_scheduler: data = SchedulerData(month, year)
CommandLoadData ==
    /\ runs[1].pc = "idle"
    /\ \E data \in SchedulerDataResults(tables, request.month, request.year) :
            Constructed(data)
    /\ runs' = [runs EXCEPT ![1].pc = "command_loaded"]
    /\ UNCHANGED <<snap, assigned, report, db, configActive, last, streak, request, loaded,
                   tables>>

\* DoctorAdmin, ShiftAdmin, LeaveRequestAdmin: while the run is in progress a
\* doctor is activated or deactivated, a shift is deleted or added, or the
\* leave requests are deleted
AdminChangeTables ==
    /\ runs[1].pc \in {"task_loaded", "command_loaded"}
    /\ tables = built[1].source
    /\ \/ \E r \in tables.doctors :
            tables' = [tables EXCEPT
                          !.doctors = (@ \ {r}) \cup {[r EXCEPT !.active = ~r.active]}]
       \/ \E id \in tables.shifts : tables' = [tables EXCEPT !.shifts = @ \ {id}]
       \/ \E id \in ShiftPool \ tables.shifts :
            /\ Cardinality(tables.shifts) < 2
            /\ tables' = [tables EXCEPT !.shifts = @ \cup {id}]
       \/ /\ tables.leave # {}
          /\ tables' = [tables EXCEPT !.leave = {}]
    /\ UNCHANGED <<snap, assigned, report, db, configActive, last, streak, runs, request,
                   loaded, built>>

\* generate_schedule_task: solver = ScheduleSolver(data, timeout); solver.solve()
TaskSolve ==
    /\ runs[1].pc = "task_loaded"
    /\ \E solution \in CompletedSearches(built[1].data) :
            runs' = [runs EXCEPT ![1] = [pc |-> "task_solved", solution |-> solution]]
    /\ UNCHANGED <<snap, assigned, report, db, configActive, last, streak, request, loaded,
                   tables, built>>

\* test_scheduler: solution = generate_schedule(month, year, timeout), which
\* constructs a SchedulerData of its own and solves over it
CommandGenerateSchedule ==
    /\ runs[1].pc = "command_loaded"
    /\ \E data \in SchedulerDataResults(tables, request.month, request.year) :
            /\ Constructed(data)
            /\ \E solution \in CompletedSearches(data) :
                    runs' = [runs EXCEPT ![1] = [pc |-> "command_solved",
                                                 solution |-> solution]]
    /\ UNCHANGED <<snap, assigned, report, db, configActive, last, streak, request, loaded,
                   tables>>

\* Both entry points: save_solution(solution, data) with the data of the first
\* construction; an IndexError in _create_assignments rolls the save back
SaveSolutionOfRun ==
    /\ runs[1].pc \in {"task_solved", "command_solved"}
    /\ LET data == AsSolverData(built[1].data)
           solution == runs[1].solution
           raises == IsFeasible(solution) /\ CreateAssignmentsRaises(solution.assignments, data)
       IN  /\ db' = IF raises THEN TransactionAtomic(db, db, FALSE)
                    ELSE SaveToDatabase(db, solution, data, 0)
           /\ last' = [op |-> IF runs[1].pc = "task_solved" THEN "generate_schedule_task"
                              ELSE "test_scheduler",
                       outcome |-> IF raises THEN "save_failed" ELSE "saved",
                       month |-> request.month,
                       solution |-> IF raises THEN NoSolution ELSE solution,
                       writes |-> 0]
    /\ runs' = [runs EXCEPT ![1].pc = "done"]
    /\ UNCHANGED <<snap, assigned, report, configActive, streak, request, loaded, tables,
                   built>>

NextS ==
    \/ TaskLoadData
    \/ CommandLoadData
    \/ AdminChangeTables
    \/ TaskSolve
    \/ CommandGenerateSchedule
    \/ SaveSolutionOfRun

SpecS == InitS /\ [][NextS]_vars

\* C21: in every snapshot the shifts are ordered by date ascending with the day
\* shift before the night shift of the same date, and doctor_index and
\* shift_index map each identity to its position, counted from 0.
C21_SnapshotOrderAndIndices ==
    \A i \in DOMAIN built :
        LET data == built[i].data
        IN  /\ \A k \in 1..(Len(data.shifts) - 1) :
                  /\ data.shifts[k].date <= data.shifts[k + 1].date
                  /\ data.shifts[k].date = data.shifts[k + 1].date
                        => data.shifts[k].kind = "day" /\ data.shifts[k + 1].kind = "night"
            /\ DOMAIN data.doctor_index = Range(data.doctors)
            /\ \A k \in DOMAIN data.doctors : data.doctor_index[data.doctors[k]] = k - 1
            /\ DOMAIN data.shift_index = SnapshotShiftIds(data)
            /\ \A k \in DOMAIN data.shifts :
                  data.shift_index[ShiftId(data.shifts[k])] = k - 1

\* A snapshot of three doctors, two of them with the same names, and of the day
\* and the night shift of one date
C21_Witness ==
    \E i \in DOMAIN built :
        /\ Len(built[i].data.doctors) = 3
        /\ Cardinality(ActiveDoctorLists(built[i].source.doctors)) > 1
        /\ Len(built[i].data.shifts) = 2
        /\ built[i].data.shifts[1].date = built[i].data.shifts[2].date

\* C23: two SchedulerData(month, year) constructions against the same
\* persistence state yield identical doctors[] and shifts[] orderings and
\* identical doctor_index, shift_index, doctors_by_specialty and leave_dates,
\* also when two active doctors share the sort key (last name, first name).
C23_SnapshotDeterminism ==
    \A i, j \in DOMAIN built :
        built[i].source = built[j].source => built[i].data = built[j].data

\* C30: in every entry point the snapshot passed to save_solution is the one
\* the solver built its variables from, so the save resolves every index and
\* every persisted assignment (doctor, shift) is the pair doctors[d], shifts[s]
\* the solver chose, also when the tables change while the run is in progress.
C30_IndicesResolvedAgainstOwnSnapshot ==
    runs[1].pc = "done" =>
        LET solved == built[Len(built)].data
        IN  /\ last.outcome = "saved"
            /\ IsFeasible(runs[1].solution)
                  => db.assignments = CreateAssignments(runs[1].solution.assignments, solved)

====
